---------------------------- MODULE Spec2Model ----------------------------
(***************************************************************************)
(* Model of the BGB knowledge-graph pipeline:                              *)
(*   backend/kg_curation/transform_raw_data.py  (paragraph splitting,      *)
(*       reference and concept extraction),                                *)
(*   backend/kg_curation/model.py               (LegalCode concept index), *)
(*   backend/kg_curation/build_graph.py         (triple set),              *)
(*   backend/kg_search_index/build_solr_index.py (search documents).       *)
(*                                                                         *)
(* Python str values are TLA+ strings; TLC evaluates Len, SubSeq and \o on *)
(* them character by character, so the regular expressions are modelled    *)
(* as scanners over the characters of the text.                            *)
(*                                                                         *)
(* TLC stores the strings of a state as 7-bit characters, so the German    *)
(* characters of the texts are written in the 7-bit German character set   *)
(* (DIN 66003), one character each:                                        *)
(*     @ = §     [ = Ä     \ = Ö     ] = Ü     { = ä     | = ö     } = ü    *)
(*     ~ = ß                                                               *)
(* These eight characters never stand for themselves in a modelled text.   *)
(***************************************************************************)
EXTENDS Integers, Sequences, FiniteSets, Bags, TLC

VARIABLES
    body,        \* text handed to build_paragraphs (the norm body)
    norm,        \* the Norm record the paragraphs are built for
    paragraphs,  \* the list returned by build_paragraphs
    pc,          \* position of the run
    code,        \* the LegalCode whose concept index is built
    index,       \* the dict returned by build_concept_index
    xml,         \* the <norm> elements of the input document, in order
    data,        \* the dict written to the JSON file by transform's main
    ttl,         \* the triples of the Turtle file written by build_graph's main
    graph,       \* BGBSolrIndexer.graph
    docs,        \* the results of create_document, by subject
    run,         \* the locals of one index_all call
    solr,        \* the search index: the requests it received and what it holds
    fs           \* the files of transform's main: input, output directory, output file

indexing == <<run, solr>>

pipeline == <<xml, data, ttl, graph, docs, run, solr, fs>>

vars == <<body, norm, paragraphs, pc, code, index, xml, data, ttl, graph, docs,
          run, solr, fs>>

---------------------------------------------------------------------------
(* Characters and character classes of the regular expressions.            *)

Char(s, i) == SubSeq(s, i, i)

\* str.strip() and \s: the whitespace characters of the modelled alphabet
Whitespace == {" ", "\t", "\n", "\r", "\f"}

\* \d and [0-9]
Digits == {"0", "1", "2", "3", "4", "5", "6", "7", "8", "9"}

\* [A-ZÄÖÜ]
UpperLetters ==
    {"A", "B", "C", "D", "E", "F", "G", "H", "I", "J", "K", "L", "M",
     "N", "O", "P", "Q", "R", "S", "T", "U", "V", "W", "X", "Y", "Z",
     "[", "\\", "]"}

\* [a-zäöü]
LowerLetters ==
    {"a", "b", "c", "d", "e", "f", "g", "h", "i", "j", "k", "l", "m",
     "n", "o", "p", "q", "r", "s", "t", "u", "v", "w", "x", "y", "z",
     "{", "|", "}"}

\* [a-zäöüA-ZÄÖÜ]
ConceptLetters == UpperLetters \cup LowerLetters

\* [a-zA-Z]
AsciiLetters == ConceptLetters \ {"[", "\\", "]", "{", "|", "}"}

\* \w (what \b tests): letters, digits and the underscore
WordChars == ConceptLetters \cup Digits \cup {"_", "~"}

\* first index >= i of s whose character is not in class (Len(s)+1 if none)
RECURSIVE RunEnd(_, _, _)
RunEnd(s, i, class) ==
    IF i <= Len(s) /\ Char(s, i) \in class
    THEN RunEnd(s, i + 1, class)
    ELSE i

\* str.strip()
RECURSIVE LStrip(_)
LStrip(s) ==
    IF Len(s) > 0 /\ Char(s, 1) \in Whitespace
    THEN LStrip(SubSeq(s, 2, Len(s)))
    ELSE s

RECURSIVE RStrip(_)
RStrip(s) ==
    IF Len(s) > 0 /\ Char(s, Len(s)) \in Whitespace
    THEN RStrip(SubSeq(s, 1, Len(s) - 1))
    ELSE s

Strip(s) == RStrip(LStrip(s))

\* str(int) of a non-negative integer, as the f-string formats the counter
DigitChar(d) == SubSeq("0123456789", d + 1, d + 1)

RECURSIVE IntToStr(_)
IntToStr(n) ==
    IF n < 10 THEN DigitChar(n)
    ELSE IntToStr(n \div 10) \o DigitChar(n % 10)

\* str.split(sep) for a one-character separator
RECURSIVE SplitFrom(_, _, _, _)
SplitFrom(s, sep, start, i) ==
    IF i > Len(s) THEN <<SubSeq(s, start, Len(s))>>
    ELSE IF Char(s, i) = sep
         THEN <<SubSeq(s, start, i - 1)>> \o SplitFrom(s, sep, i + 1, i + 1)
         ELSE SplitFrom(s, sep, start, i + 1)

StrSplit(s, sep) == SplitFrom(s, sep, 1, 1)

\* str.replace(old, new) for a one-character old
RECURSIVE StrReplace(_, _, _)
StrReplace(s, old, new) ==
    IF s = "" THEN ""
    ELSE (IF Char(s, 1) = old THEN new ELSE Char(s, 1))
         \o StrReplace(SubSeq(s, 2, Len(s)), old, new)

\* s.startswith(prefix)
StartsWith(s, prefix) ==
    Len(s) >= Len(prefix) /\ SubSeq(s, 1, Len(prefix)) = prefix

\* needle in hay
Contains(hay, needle) ==
    \E i \in 1..(Len(hay) - Len(needle) + 1) :
        SubSeq(hay, i, i + Len(needle) - 1) = needle

\* the upper-case letters and, at the same position, their lower-case forms
UpperChars == "ABCDEFGHIJKLMNOPQRSTUVWXYZ[\\]"
LowerChars == "abcdefghijklmnopqrstuvwxyz{|}"

\* c.lower() for one character
LowerChar(c) ==
    IF \E i \in 1..Len(UpperChars) : Char(UpperChars, i) = c
    THEN Char(LowerChars, CHOOSE i \in 1..Len(UpperChars) : Char(UpperChars, i) = c)
    ELSE c

\* s.lower()
RECURSIVE StrLower(_)
StrLower(s) ==
    IF s = "" THEN ""
    ELSE LowerChar(Char(s, 1)) \o StrLower(SubSeq(s, 2, Len(s)))

\* s.split(sep, 1)[1] for a one-character sep that occurs in s
AfterFirst(s, sep) ==
    LET i == CHOOSE k \in 1..Len(s) :
                 Char(s, k) = sep /\ \A j \in 1..(k - 1) : Char(s, j) # sep
    IN  SubSeq(s, i + 1, Len(s))

\* sep.join(pieces)
RECURSIVE Join(_, _)
Join(pieces, sep) ==
    IF pieces = <<>> THEN ""
    ELSE IF Len(pieces) = 1 THEN pieces[1]
    ELSE pieces[1] \o sep \o Join(Tail(pieces), sep)

---------------------------------------------------------------------------
\* PARA_SPLIT_RE = \((\d+)\)  and  PARA_SPLIT_RE.split(text)

\* index just after a marker that starts at i, or 0 when none starts there
ParaMarkerEnd(s, i) ==
    LET d == RunEnd(s, i + 1, Digits)
    IN  IF Char(s, i) = "(" /\ d > i + 1 /\ d <= Len(s) /\ Char(s, d) = ")"
        THEN d + 1
        ELSE 0

\* re.split with one capture group: <<text, number, text, number, ..., text>>
RECURSIVE ParaSplitFrom(_, _, _)
ParaSplitFrom(s, start, i) ==
    IF i > Len(s) THEN <<SubSeq(s, start, Len(s))>>
    ELSE IF ParaMarkerEnd(s, i) # 0
         THEN LET e == ParaMarkerEnd(s, i)
              IN  <<SubSeq(s, start, i - 1), SubSeq(s, i + 1, e - 2)>>
                  \o ParaSplitFrom(s, e, e)
         ELSE ParaSplitFrom(s, start, i + 1)

PARA_SPLIT(text) == ParaSplitFrom(text, 1, 1)

---------------------------------------------------------------------------
\* REFERENCE_RE = §\s*([0-9]+[a-zA-Z]?)  and  REFERENCE_RE.finditer

\* the match starting at i: [s |-> start of group 1, e |-> index after the
\* match], or e = 0 when no match starts at i
ReferenceMatch(s, i) ==
    LET j == RunEnd(s, i + 1, Whitespace)
        d == RunEnd(s, j, Digits)
        e == IF d <= Len(s) /\ Char(s, d) \in AsciiLetters THEN d + 1 ELSE d
    IN  IF Char(s, i) = "@" /\ d > j
        THEN [s |-> j, e |-> e]
        ELSE [s |-> 0, e |-> 0]

\* the ParagraphReference records of all matches from i on, left to right
RECURSIVE FindReferences(_, _)
FindReferences(s, i) ==
    IF i > Len(s) THEN <<>>
    ELSE LET m == ReferenceMatch(s, i)
         IN  IF m.e # 0
             THEN <<[target_norm_id |-> "bgb-data:norm_" \o SubSeq(s, m.s, m.e - 1),
                     text_snippet   |-> SubSeq(s, i, m.e - 1)]>>
                  \o FindReferences(s, m.e)
             ELSE FindReferences(s, i + 1)

---------------------------------------------------------------------------
\* CONCEPT_DEF_RE =
\*   \b((?:[A-ZÄÖÜ][a-zäöüA-ZÄÖÜ]+)(?:\s+[A-ZÄÖÜ][a-zäöüA-ZÄÖÜ]+)*)\b\s+ist\b

IsWordAt(s, i) == i >= 1 /\ i <= Len(s) /\ Char(s, i) \in WordChars

\* \b at the position before character i (i in 1..Len(s)+1)
WordBoundary(s, i) == IsWordAt(s, i - 1) # IsWordAt(s, i)

\* [A-ZÄÖÜ][a-zäöüA-ZÄÖÜ]+ at i: index after the word, or 0.  The letter run
\* is taken whole: a shorter run ends between two letters, where neither \b
\* nor \s+ can match, so backtracking into it never succeeds.
CapWordEnd(s, i) ==
    LET e == RunEnd(s, i + 1, ConceptLetters)
    IN  IF i <= Len(s) /\ Char(s, i) \in UpperLetters /\ e > i + 1
        THEN e
        ELSE 0

\* the pattern without its (?:\s+Word)* part: one capitalized word only
ConceptGroupEnds_SingleWord(s, e) == <<e>>

\* the ends the group can take after a first word ending at e, in the order
\* the greedy (?:\s+Word)* tries them: most words first
RECURSIVE ConceptGroupEnds(_, _)
ConceptGroupEnds(s, e) ==
    LET w == RunEnd(s, e, Whitespace)
    IN  IF w > e /\ CapWordEnd(s, w) # 0
        THEN ConceptGroupEnds(s, CapWordEnd(s, w)) \o <<e>>
        ELSE <<e>>

\* \b\s+ist\b at e: index after the match, or 0
CopulaEnd(s, e) ==
    LET w == RunEnd(s, e, Whitespace)
    IN  IF WordBoundary(s, e) /\ w > e /\ w + 2 <= Len(s)
           /\ SubSeq(s, w, w + 2) = "ist" /\ WordBoundary(s, w + 3)
        THEN w + 3
        ELSE 0

\* the match starting at i: [g |-> index after group 1, e |-> index after the
\* match], or e = 0 when no match starts at i
ConceptMatch(s, i) ==
    IF WordBoundary(s, i) /\ CapWordEnd(s, i) # 0
    THEN LET ends == ConceptGroupEnds(s, CapWordEnd(s, i))
             ok   == {k \in 1..Len(ends) : CopulaEnd(s, ends[k]) # 0}
         IN  IF ok = {} THEN [g |-> 0, e |-> 0]
             ELSE LET k == CHOOSE k \in ok : \A k2 \in ok : k <= k2
                  IN  [g |-> ends[k], e |-> CopulaEnd(s, ends[k])]
    ELSE [g |-> 0, e |-> 0]

\* the LegalConcept records of all matches from i on, left to right
RECURSIVE FindConcepts(_, _, _)
FindConcepts(s, i, para_id) ==
    IF i > Len(s) THEN <<>>
    ELSE LET m == ConceptMatch(s, i)
         IN  IF m.e # 0
             THEN LET label == Strip(SubSeq(s, i, m.g - 1))
                      concept_id_label == StrReplace(label, " ", "_")
                  IN  <<[id         |-> "bgb-data:concept_" \o concept_id_label,
                         label      |-> label,
                         defined_in |-> para_id]>>
                      \o FindConcepts(s, m.e, para_id)
             ELSE FindConcepts(s, i + 1, para_id)

---------------------------------------------------------------------------
(* build_paragraph and build_paragraphs                                    *)

\* build_paragraph that finds no references
build_paragraph_NoReferences(n, number, text) ==
    LET para_id == "bgb-data:" \o StrSplit(n.id, ":")[2] \o "_para_" \o number
    IN  [id                   |-> para_id,
         paragraph_identifier |-> number,
         text_content         |-> text,
         defines_concepts     |-> FindConcepts(text, 1, para_id),
         refers_to            |-> <<>>]

build_paragraph(n, number, text) ==
    LET para_id == "bgb-data:" \o StrSplit(n.id, ":")[2] \o "_para_" \o number
    IN  [id                   |-> para_id,
         paragraph_identifier |-> number,
         text_content         |-> text,
         defines_concepts     |-> FindConcepts(text, 1, para_id),
         refers_to            |-> FindReferences(text, 1)]

\* while number in seen_numbers: number = f"{orig_number}_{counter}"; counter += 1
RECURSIVE Disambiguate(_, _, _, _)
Disambiguate(number, orig_number, counter, seen_numbers) ==
    IF number \in seen_numbers
    THEN Disambiguate(orig_number \o "_" \o IntToStr(counter), orig_number,
                      counter + 1, seen_numbers)
    ELSE number

\* for number, body in zip(it, it): the pairs parts[k], parts[k+1]
RECURSIVE MarkerLoop(_, _, _, _)
MarkerLoop(parts, k, seen_numbers, n) ==
    IF k + 1 > Len(parts) THEN <<>>
    ELSE LET orig_number == parts[k]
             body_clean  == Strip(parts[k + 1])
             number      == Disambiguate(orig_number, orig_number, 1, seen_numbers)
         IN  IF body_clean = ""
             THEN MarkerLoop(parts, k + 2, seen_numbers, n)
             ELSE <<build_paragraph(n, orig_number, body_clean)>>
                  \o MarkerLoop(parts, k + 2, seen_numbers \cup {number}, n)

\* re.split(r"\n\n+", text)
RECURSIVE BlankLineSplitFrom(_, _, _)
BlankLineSplitFrom(s, start, i) ==
    IF i > Len(s) THEN <<SubSeq(s, start, Len(s))>>
    ELSE LET e == RunEnd(s, i, {"\n"})
         IN  IF e - i >= 2
             THEN <<SubSeq(s, start, i - 1)>> \o BlankLineSplitFrom(s, e, e)
             ELSE BlankLineSplitFrom(s, start, i + 1)

\* [c.strip() for c in pieces]: the blank pieces are kept
StripNonEmpty_KeepBlank(pieces) == [i \in 1..Len(pieces) |-> Strip(pieces[i])]

\* [c.strip() for c in pieces if c.strip()]
RECURSIVE StripNonEmpty(_)
StripNonEmpty(pieces) ==
    IF pieces = <<>> THEN <<>>
    ELSE (IF Strip(Head(pieces)) # "" THEN <<Strip(Head(pieces))>> ELSE <<>>)
         \o StripNonEmpty(Tail(pieces))

FallbackChunks(text) ==
    LET chunks == StripNonEmpty(BlankLineSplitFrom(text, 1, 1))
    IN  IF chunks = <<>> /\ text # "" THEN <<text>> ELSE chunks

\* build_paragraphs keeping the marker pairs whose text is blank
build_paragraphs_KeepBlank(text, n) ==
    LET parts == PARA_SPLIT(text)
    IN  IF Len(parts) > 1
        THEN (IF Strip(parts[1]) # ""
              THEN <<build_paragraph(n, "0", Strip(parts[1]))>>
              ELSE <<>>)
             \o [k \in 1..((Len(parts) - 1) \div 2) |->
                    build_paragraph(n, parts[2 * k], Strip(parts[2 * k + 1]))]
        ELSE LET chunks == FallbackChunks(text)
             IN  [idx \in 1..Len(chunks) |->
                     build_paragraph(n, IntToStr(idx), chunks[idx])]

build_paragraphs(text, n) ==
    LET parts == PARA_SPLIT(text)
    IN  IF Len(parts) > 1
        THEN LET leading_text == Strip(parts[1])
             IN  (IF leading_text # ""
                  THEN <<build_paragraph(n, "0", leading_text)>>
                  ELSE <<>>)
                 \o MarkerLoop(parts, 2, {}, n)
        ELSE LET chunks == FallbackChunks(text)
             IN  [idx \in 1..Len(chunks) |->
                     build_paragraph(n, IntToStr(idx), chunks[idx])]

---------------------------------------------------------------------------
(* Python dict: the <<key, value>> pairs in insertion order, keys unique.  *)

DictKeys(d) == {d[i][1] : i \in 1..Len(d)}

\* d[k] for a key of d
DictGet(d, k) == d[CHOOSE i \in 1..Len(d) : d[i][1] = k][2]

\* list(d.values())
DictValues(d) == [i \in 1..Len(d) |-> d[i][2]]

\* d[k] = v
DictAssign(d, k, v) ==
    IF k \in DictKeys(d)
    THEN [i \in 1..Len(d) |-> IF d[i][1] = k THEN <<k, v>> ELSE d[i]]
    ELSE Append(d, <<k, v>>)

\* d.setdefault(k, v)
DictSetDefault(d, k, v) == IF k \in DictKeys(d) THEN d ELSE Append(d, <<k, v>>)

---------------------------------------------------------------------------
(* LegalCode.build_concept_index                                           *)

\* index.setdefault(c.id, c), keyed by the label instead of the id
SetDefault_KeyByLabel(idx, c) == DictSetDefault(idx, c.label, c)

\* index.setdefault(c.id, c)
SetDefault(idx, c) == DictSetDefault(idx, c.id, c)

\* for c in self.concepts: index.setdefault(c.id, c)
RECURSIVE IndexGlobals(_, _)
IndexGlobals(idx, cs) ==
    IF cs = <<>> THEN idx
    ELSE IndexGlobals(SetDefault(idx, Head(cs)), Tail(cs))

\* index[c.id] = c without the membership test: the last writer wins
AddIfAbsent_Overwrite(idx, c) == DictAssign(idx, c.id, c)

\* the concept is entered under its defining paragraph as well
AddIfAbsent_AlsoDefinedIn(idx, c) ==
    DictAssign(IF c.id \in DictKeys(idx) THEN idx ELSE DictAssign(idx, c.id, c),
               c.defined_in, c)

\* if c.id not in index: index[c.id] = c
AddIfAbsent(idx, c) ==
    IF c.id \in DictKeys(idx) THEN idx ELSE DictAssign(idx, c.id, c)

\* for c in para.defines_concepts
RECURSIVE IndexConcepts(_, _)
IndexConcepts(idx, cs) ==
    IF cs = <<>> THEN idx
    ELSE IndexConcepts(AddIfAbsent(idx, Head(cs)), Tail(cs))

\* for para in norm.paragraphs
RECURSIVE IndexParagraphs(_, _)
IndexParagraphs(idx, ps) ==
    IF ps = <<>> THEN idx
    ELSE IndexParagraphs(IndexConcepts(idx, Head(ps).defines_concepts), Tail(ps))

\* for norm in self.norms
RECURSIVE IndexNorms(_, _)
IndexNorms(idx, ns) ==
    IF ns = <<>> THEN idx
    ELSE IndexNorms(IndexParagraphs(idx, Head(ns).paragraphs), Tail(ns))

\* the paragraph-local concepts entered before the pre-declared ones
build_concept_index_ParagraphsFirst(lc) ==
    IndexGlobals(IndexNorms(<<>>, lc.norms), lc.concepts)

build_concept_index(lc) ==
    IndexNorms(IndexGlobals(<<>>, lc.concepts), lc.norms)

---------------------------------------------------------------------------
(* Inputs of build_paragraphs.                                             *)

\* number of pieces a generated body is made of
MaxChunks == 4

\* the pieces: markers, text, whitespace and a blank line
BodyChunks == {"(1)", "(2)", "(0)", "x", " ", "\n\n"}

RECURSIVE Concat(_)
Concat(pieces) ==
    IF pieces = <<>> THEN "" ELSE Head(pieces) \o Concat(Tail(pieces))

GeneratedBodies ==
    {Concat(f) : f \in UNION {[1..n -> BodyChunks] : n \in 0..MaxChunks}}

ScenarioBody ==
    "Ein Vertrag ist eine Willenserkl{rung. (1) Der K{ufer zahlt. (2) Der Verk{ufer liefert @ 5."

SampleBodies ==
    {ScenarioBody,
     "(1) a (1) b (1) c (1_1) d",
     "Verbraucher ist jede Person. (2) Der Verbraucherschutz gilt nach @ 13a und @14.",
     "Eingetragener Verein ist x.\n\nEin Verein Ist y, Kaufvertrag  ist z",
     "(12) Ab C ist, A1 ist (3)\t\n(4) @ x @\n7b",
     " a\n\n \n\n\nb c\n d\n"}

Bodies == GeneratedBodies \cup SampleBodies

\* Norm(id=f"bgb-data:norm_{ident}", norm_identifier=f"§ {ident}",
\*      title=full_title, is_repealed=is_repealed, paragraphs=[])
NormOf(ident, title_text, norm_body) ==
    [id              |-> "bgb-data:norm_" \o ident,
     norm_identifier |-> "@ " \o ident,
     title           |-> Strip("@ " \o ident \o " " \o title_text),
     is_repealed     |-> \/ Contains(StrLower(title_text), "(weggefallen)")
                         \/ Contains(StrLower(norm_body), "(weggefallen)"),
     paragraphs      |-> <<>>]

\* index_all has not been called and the search index has received nothing
NoIndexing ==
    /\ run = [batch_size |-> 0, todo |-> {}, documents |-> <<>>, created |-> <<>>]
    /\ solr = [log |-> <<>>, store |-> {}, visible |-> {}]

\* the files before a run of transform's main: input is "ok" (a
\* well-formed document), "malformed" or "missing"; out_dir is
\* os.path.dirname(args.output): "none" (empty), "exists" or "missing";
\* disk tells how opening and writing the output file will go; made_dir,
\* opened and written tell what the run has done to the output so far
FilesOf(input, out_dir, disk) ==
    [input |-> input, out_dir |-> out_dir, disk |-> disk,
     made_dir |-> FALSE, opened |-> FALSE, written |-> FALSE]

\* a readable input, an existing output directory, a writable file
GoodFiles == FilesOf("ok", "exists", "ok")

\* nothing has been read, written or loaded
NoPipeline ==
    /\ xml = <<>>
    /\ data = <<>>
    /\ ttl = {}
    /\ graph = {}
    /\ docs = <<>>
    /\ NoIndexing
    /\ fs = GoodFiles

\* LegalCode(id="bgb-data:BGB", title=..., norms=[]) ; concepts defaults to []
EmptyCode ==
    [id       |-> "bgb-data:BGB",
     title    |-> "B}rgerliches Gesetzbuch",
     norms    |-> <<>>,
     concepts |-> <<>>]

NormIdents == {"433", "13a"}

---------------------------------------------------------------------------
(* The run: one call of build_paragraphs on a norm body.                   *)

Init ==
    /\ body \in Bodies
    /\ norm \in {NormOf(ident, "", body) : ident \in NormIdents}
    /\ paragraphs = <<>>
    /\ pc = "parse"
    /\ code = EmptyCode
    /\ index = <<>>
    /\ NoPipeline

\* build_paragraphs on a body that holds at least one "(n)" marker
BuildParagraphsMarkers ==
    /\ pc = "parse"
    /\ Len(PARA_SPLIT(body)) > 1
    /\ paragraphs' = build_paragraphs(body, norm)
    /\ pc' = "done"
    /\ UNCHANGED <<body, norm, code, index>>
    /\ UNCHANGED pipeline

\* build_paragraphs on a body without marker: the blank-line fallback
BuildParagraphsFallback ==
    /\ pc = "parse"
    /\ Len(PARA_SPLIT(body)) <= 1
    /\ paragraphs' = build_paragraphs(body, norm)
    /\ pc' = "done"
    /\ UNCHANGED <<body, norm, code, index>>
    /\ UNCHANGED pipeline

Next == BuildParagraphsMarkers \/ BuildParagraphsFallback

Spec == Init /\ [][Next]_vars

---------------------------------------------------------------------------
(* Properties of build_paragraphs (specification Spec).                    *)

Done == pc = "done"

\* the pieces of the body, the number of its "(n)" markers and its leading text
BodyParts == PARA_SPLIT(body)
NumMarkers == (Len(BodyParts) - 1) \div 2
LeadingCount == IF Strip(BodyParts[1]) # "" THEN 1 ELSE 0

\* C1: the ids of the paragraphs build_paragraphs returns for one norm are
\* pairwise distinct, also when a marker number repeats in the body.
C1_DistinctParagraphIds ==
    Done => \A i, j \in 1..Len(paragraphs) :
                i # j => paragraphs[i].id # paragraphs[j].id

\* C2 as stated: with k >= 1 markers, build_paragraphs returns k + 1
\* paragraphs when the leading text is non-empty and k when it is empty.
C2_OneParagraphPerMarker ==
    (Done /\ NumMarkers >= 1) => Len(paragraphs) = NumMarkers + LeadingCount

\* C2 amended: with k >= 1 markers, build_paragraphs returns one paragraph
\* per marker whose following text is non-empty after trimming, plus one
\* when the leading text is non-empty after trimming.
C2_OneParagraphPerNonBlankMarker ==
    (Done /\ NumMarkers >= 1) =>
        Len(paragraphs) =
            Cardinality({k \in 1..NumMarkers : Strip(BodyParts[2 * k + 1]) # ""})
            + LeadingCount

C2_Witness ==
    /\ Done
    /\ NumMarkers >= 2
    /\ LeadingCount = 1
    /\ \E k \in 1..NumMarkers : Strip(BodyParts[2 * k + 1]) = ""
    /\ \E k \in 1..NumMarkers : Strip(BodyParts[2 * k + 1]) # ""
    /\ Len(paragraphs) = 2

ScenarioRun == Done /\ body = ScenarioBody /\ norm.id = "bgb-data:norm_433"

\* C7 as stated: in the scenario the concept of paragraph "0" has label
\* "Vertrag", id bgb-data:concept_Vertrag and defined_in norm_433_para_0.
C7_ScenarioConceptVertrag ==
    ScenarioRun =>
        /\ paragraphs[1].paragraph_identifier = "0"
        /\ paragraphs[1].defines_concepts =
               <<[id         |-> "bgb-data:concept_Vertrag",
                  label      |-> "Vertrag",
                  defined_in |-> "bgb-data:norm_433_para_0"]>>

\* C7 amended: in the scenario the concept of paragraph "0" has label
\* "Ein Vertrag", id bgb-data:concept_Ein_Vertrag and defined_in equal to the
\* id of paragraph norm_433_para_0.
C7_ScenarioConceptEinVertrag ==
    ScenarioRun =>
        /\ paragraphs[1].paragraph_identifier = "0"
        /\ paragraphs[1].defines_concepts =
               <<[id         |-> "bgb-data:concept_Ein_Vertrag",
                  label      |-> "Ein Vertrag",
                  defined_in |-> paragraphs[1].id]>>
        /\ paragraphs[1].id = "bgb-data:norm_433_para_0"

C7_Witness ==
    /\ ScenarioRun
    /\ Len(paragraphs) >= 1
    /\ Len(paragraphs[1].defines_concepts) = 1

\* C8: in the scenario build_paragraphs returns paragraphs "0", "1", "2" in
\* that order, paragraph "0" has the leading sentence as text and the id
\* norm_433_para_0, and paragraph "2" refers to bgb-data:norm_5.
C8_ScenarioParagraphs ==
    ScenarioRun =>
        /\ [i \in 1..Len(paragraphs) |-> paragraphs[i].paragraph_identifier]
               = <<"0", "1", "2">>
        /\ paragraphs[1].text_content = "Ein Vertrag ist eine Willenserkl{rung."
        /\ paragraphs[1].id = "bgb-data:norm_433_para_0"
        /\ \E r \in 1..Len(paragraphs[3].refers_to) :
               paragraphs[3].refers_to[r].target_norm_id = "bgb-data:norm_5"

C8_Witness ==
    /\ ScenarioRun
    /\ Len(paragraphs) = 3
    /\ paragraphs[3].refers_to # <<>>

\* C10: build_paragraphs applied to the empty string or to a body made only
\* of whitespace returns the empty list.
C10_BlankBodyNoParagraphs ==
    (Done /\ Strip(body) = "") => paragraphs = <<>>

\* the characters of the body that belong to a blank-line boundary: the
\* line breaks that stand next to another line break
InBoundary(i) ==
    /\ Char(body, i) = "\n"
    /\ \/ (i > 1 /\ Char(body, i - 1) = "\n")
       \/ (i < Len(body) /\ Char(body, i + 1) = "\n")

\* the chunks between the boundaries, as <<first, last>> positions, and
\* those of them that are not blank
Chunks ==
    {c \in (1..Len(body)) \X (1..Len(body)) :
        /\ c[1] <= c[2]
        /\ \A i \in c[1]..c[2] : ~InBoundary(i)
        /\ c[1] = 1 \/ InBoundary(c[1] - 1)
        /\ c[2] = Len(body) \/ InBoundary(c[2] + 1)}
NonBlankChunks == {c \in Chunks : Strip(SubSeq(body, c[1], c[2])) # ""}
ChunkRank(c) == Cardinality({d \in NonBlankChunks : d[1] <= c[1]})
NoMarker == Len(BodyParts) = 1

\* C21: for a non-blank body without marker, build_paragraphs returns one
\* paragraph per non-blank chunk between blank-line boundaries, in text
\* order: the k-th non-blank chunk, trimmed, is the text of the k-th
\* paragraph, whose paragraph_identifier is the decimal k (blank chunks
\* consume no number); a body without blank line yields the single
\* paragraph "1" with the whole trimmed body.
C21_FallbackChunksNumbered ==
    (Done /\ NoMarker /\ Strip(body) # "") =>
        /\ Len(paragraphs) = Cardinality(NonBlankChunks)
        /\ \A c \in NonBlankChunks :
              /\ paragraphs[ChunkRank(c)].text_content
                     = Strip(SubSeq(body, c[1], c[2]))
              /\ paragraphs[ChunkRank(c)].paragraph_identifier
                     = IntToStr(ChunkRank(c))
        /\ (\A i \in 1..Len(body) : ~InBoundary(i)) =>
              /\ Len(paragraphs) = 1
              /\ paragraphs[1].paragraph_identifier = "1"
              /\ paragraphs[1].text_content = Strip(body)

\* a body with a blank chunk between two chunks of text: the blank chunk
\* took no number
C21_Witness ==
    /\ Done /\ NoMarker
    /\ Cardinality(Chunks) > Cardinality(NonBlankChunks)
    /\ Len(paragraphs) = 2
    /\ paragraphs[1].paragraph_identifier = "1"
    /\ paragraphs[2].paragraph_identifier = "2"

\* C22: every paragraph build_paragraphs returns, for every body and on
\* both strategies, has a text_content that is not blank and has no
\* whitespace at its start or end.
C22_TextTrimmedNonEmpty ==
    Done => \A i \in 1..Len(paragraphs) :
                /\ Strip(paragraphs[i].text_content) # ""
                /\ Strip(paragraphs[i].text_content) = paragraphs[i].text_content

---------------------------------------------------------------------------
(* The copy of build_paragraphs in src/kg_curation/transform_raw_data.py.  *)

\* CONCEPT_DEF_RE of that file, \b([A-ZÄÖÜ][a-zäöüA-ZÄÖÜ]+)\b\s+ist\b:
\* [g |-> index after group 1, e |-> index after the match] of the match
\* starting at i, e = 0 for none
kg_curation_ConceptMatch(s, i) ==
    IF WordBoundary(s, i) /\ CapWordEnd(s, i) # 0
       /\ CopulaEnd(s, CapWordEnd(s, i)) # 0
    THEN [g |-> CapWordEnd(s, i), e |-> CopulaEnd(s, CapWordEnd(s, i))]
    ELSE [g |-> 0, e |-> 0]

\* label = m.group(1); concept_id = f"bgb-data:concept_{label}"
RECURSIVE kg_curation_FindConcepts(_, _, _)
kg_curation_FindConcepts(s, i, para_id) ==
    IF i > Len(s) THEN <<>>
    ELSE LET m == kg_curation_ConceptMatch(s, i)
         IN  IF m.e # 0
             THEN LET label == SubSeq(s, i, m.g - 1)
                  IN  <<[id         |-> "bgb-data:concept_" \o label,
                         label      |-> label,
                         defined_in |-> para_id]>>
                      \o kg_curation_FindConcepts(s, m.e, para_id)
             ELSE kg_curation_FindConcepts(s, i + 1, para_id)

kg_curation_build_paragraph(n, number, text) ==
    LET para_id == "bgb-data:" \o StrSplit(n.id, ":")[2] \o "_para_" \o number
    IN  [id                   |-> para_id,
         paragraph_identifier |-> number,
         text_content         |-> text,
         defines_concepts     |-> kg_curation_FindConcepts(text, 1, para_id),
         refers_to            |-> FindReferences(text, 1)]

\* while number in seen_numbers: counter += 1; number = f"{orig_number}_{counter}"
RECURSIVE kg_curation_Disambiguate(_, _, _, _)
kg_curation_Disambiguate(number, orig_number, counter, seen_numbers) ==
    IF number \in seen_numbers
    THEN kg_curation_Disambiguate(orig_number \o "_" \o IntToStr(counter + 1),
                                  orig_number, counter + 1, seen_numbers)
    ELSE number

\* for number, body in zip(it, it), the paragraph built with the
\* disambiguated number
RECURSIVE kg_curation_MarkerLoop(_, _, _, _)
kg_curation_MarkerLoop(parts, k, seen_numbers, n) ==
    IF k + 1 > Len(parts) THEN <<>>
    ELSE LET body_clean == Strip(parts[k + 1])
             number     == kg_curation_Disambiguate(parts[k], parts[k], 1,
                                                    seen_numbers)
         IN  IF body_clean = ""
             THEN kg_curation_MarkerLoop(parts, k + 2, seen_numbers, n)
             ELSE <<kg_curation_build_paragraph(n, number, body_clean)>>
                  \o kg_curation_MarkerLoop(parts, k + 2,
                                            seen_numbers \cup {number}, n)

\* the text before the first marker is discarded; without marker the
\* non-blank chunks between blank lines, none for a blank text
kg_curation_build_paragraphs(text, n) ==
    LET parts == PARA_SPLIT(text)
    IN  IF Len(parts) > 1
        THEN kg_curation_MarkerLoop(parts, 2, {}, n)
        ELSE LET chunks == StripNonEmpty(BlankLineSplitFrom(text, 1, 1))
             IN  [idx \in 1..Len(chunks) |->
                     kg_curation_build_paragraph(n, IntToStr(idx), chunks[idx])]

\* one call of that build_paragraphs, on a body with markers
KgCurationBuildParagraphsMarkers ==
    /\ pc = "parse"
    /\ Len(PARA_SPLIT(body)) > 1
    /\ paragraphs' = kg_curation_build_paragraphs(body, norm)
    /\ pc' = "done"
    /\ UNCHANGED <<body, norm, code, index>>
    /\ UNCHANGED pipeline

\* and on a body without marker
KgCurationBuildParagraphsFallback ==
    /\ pc = "parse"
    /\ Len(PARA_SPLIT(body)) <= 1
    /\ paragraphs' = kg_curation_build_paragraphs(body, norm)
    /\ pc' = "done"
    /\ UNCHANGED <<body, norm, code, index>>
    /\ UNCHANGED pipeline

NextKgCuration ==
    KgCurationBuildParagraphsMarkers \/ KgCurationBuildParagraphsFallback

SpecKgCuration == Init /\ [][NextKgCuration]_vars

\* the markers whose text is not blank, and the number of paragraphs that
\* come before the marker-derived ones (the leading text, if kept)
NonBlankMarkers == {k \in 1..NumMarkers : Strip(BodyParts[2 * k + 1]) # ""}
MarkerRank(k) == Cardinality({j \in NonBlankMarkers : j <= k})
LeadingKept == Len(paragraphs) - Cardinality(NonBlankMarkers)

\* C23: the paragraph of every marker with non-blank text, a repeated
\* number included, has the digit string of that marker as its
\* paragraph_identifier: no disambiguation suffix shows in it.
C23_IdentifierIsMarkerNumber ==
    (Done /\ NumMarkers >= 1) =>
        \A k \in NonBlankMarkers :
            paragraphs[LeadingKept + MarkerRank(k)].paragraph_identifier
                = BodyParts[2 * k]

\* C27: when the body has non-blank text before its first marker and a
\* "(0)" marker with non-blank text, the paragraph "0" of the leading text
\* and the paragraph of that marker are both returned, with different ids.
C27_LeadingZeroCountsAsUsed ==
    (Done /\ NumMarkers >= 1 /\ LeadingCount = 1) =>
        \A k \in NonBlankMarkers :
            BodyParts[2 * k] = "0" =>
                /\ Len(paragraphs) >= 1 + MarkerRank(k)
                /\ paragraphs[1].paragraph_identifier = "0"
                /\ paragraphs[1].text_content = Strip(BodyParts[1])
                /\ paragraphs[1 + MarkerRank(k)].text_content
                       = Strip(BodyParts[2 * k + 1])
                /\ paragraphs[1 + MarkerRank(k)].id # paragraphs[1].id

---------------------------------------------------------------------------
(* The run: a LegalCode is put together, then build_concept_index is       *)
(* called on it.                                                           *)

\* sizes of the LegalCode: norms, paragraphs and paragraph-local concepts
\* in the whole code, pre-declared concepts
MaxNorms == 2
MaxParagraphs == 2
MaxMentions == 2
MaxPredeclared == 2

\* LegalConcept records; two of them share an id and differ in label and
\* defined_in
ConceptPool ==
    {[id         |-> "bgb-data:concept_Verein",
      label      |-> "Verein",
      defined_in |-> "bgb-data:norm_1_para_1"],
     [id         |-> "bgb-data:concept_Verein",
      label      |-> "Eingetragener Verein",
      defined_in |-> "bgb-data:norm_2_para_1"],
     [id         |-> "bgb-data:concept_Sache",
      label      |-> "Sache",
      defined_in |-> "bgb-data:norm_1_para_2"]}

RECURSIVE Flatten(_)
Flatten(seqs) == IF seqs = <<>> THEN <<>> ELSE Head(seqs) \o Flatten(Tail(seqs))

\* the paragraphs of the code, and its paragraph-local concepts, in document
\* order: norms in list order, their paragraphs in list order, each
\* defines_concepts in list order
ParagraphsOf(lc) ==
    Flatten([i \in 1..Len(lc.norms) |-> lc.norms[i].paragraphs])

MentionsOf(lc) ==
    Flatten([i \in 1..Len(ParagraphsOf(lc)) |->
               ParagraphsOf(lc)[i].defines_concepts])

InitConcepts ==
    /\ body = ""
    /\ norm = NormOf("1", "", "")
    /\ paragraphs = <<>>
    /\ pc = "construct"
    /\ code = EmptyCode
    /\ index = <<>>
    /\ NoPipeline

\* LegalCode.concepts receives a pre-declared concept
Predeclare(c) ==
    /\ pc = "construct"
    /\ Len(code.concepts) < MaxPredeclared
    /\ code' = [code EXCEPT !.concepts = Append(@, c)]
    /\ UNCHANGED <<body, norm, paragraphs, pc, index>>
    /\ UNCHANGED pipeline

\* LegalCode.norms receives a norm
AddNorm ==
    /\ pc = "construct"
    /\ Len(code.norms) < MaxNorms
    /\ code' = [code EXCEPT !.norms =
                    Append(@, NormOf(IntToStr(Len(code.norms) + 1), "", ""))]
    /\ UNCHANGED <<body, norm, paragraphs, pc, index>>
    /\ UNCHANGED pipeline

\* the last norm receives a paragraph
AddParagraph ==
    /\ pc = "construct"
    /\ code.norms # <<>>
    /\ Len(ParagraphsOf(code)) < MaxParagraphs
    /\ LET n == Len(code.norms)
           number == IntToStr(Len(code.norms[n].paragraphs) + 1)
       IN  code' = [code EXCEPT !.norms[n].paragraphs =
                       Append(@, [build_paragraph(code.norms[n], number, "x")
                                     EXCEPT !.defines_concepts = <<>>])]
    /\ UNCHANGED <<body, norm, paragraphs, pc, index>>
    /\ UNCHANGED pipeline

\* the last paragraph's defines_concepts receives a concept
AddConcept(c) ==
    /\ pc = "construct"
    /\ code.norms # <<>>
    /\ code.norms[Len(code.norms)].paragraphs # <<>>
    /\ Len(MentionsOf(code)) < MaxMentions
    /\ LET n == Len(code.norms)
           k == Len(code.norms[n].paragraphs)
       IN  code' = [code EXCEPT !.norms[n].paragraphs[k].defines_concepts =
                       Append(@, c)]
    /\ UNCHANGED <<body, norm, paragraphs, pc, index>>
    /\ UNCHANGED pipeline

\* concept_index = code.build_concept_index()
BuildConceptIndex ==
    /\ pc = "construct"
    /\ index' = build_concept_index(code)
    /\ pc' = "indexed"
    /\ UNCHANGED <<body, norm, paragraphs, code>>
    /\ UNCHANGED pipeline

NextConcepts ==
    \/ \E c \in ConceptPool : Predeclare(c)
    \/ AddNorm
    \/ AddParagraph
    \/ \E c \in ConceptPool : AddConcept(c)
    \/ BuildConceptIndex

SpecConcepts == InitConcepts /\ [][NextConcepts]_vars

---------------------------------------------------------------------------
(* Properties of build_concept_index (specification SpecConcepts).         *)

Indexed == pc = "indexed"

Mentions == MentionsOf(code)

FirstWithId(cs, id) ==
    cs[CHOOSE i \in 1..Len(cs) :
          cs[i].id = id /\ \A j \in 1..(i - 1) : cs[j].id # id]

IdsOf(cs) == {cs[i].id : i \in 1..Len(cs)}

\* C3 as stated: every concept id is mapped to the first concept carrying
\* that id in the traversal of the norms, paragraphs and defines_concepts.
C3_FirstMentionWins ==
    Indexed => \A id \in IdsOf(Mentions) :
                   /\ id \in DictKeys(index)
                   /\ DictGet(index, id) = FirstWithId(Mentions, id)

\* C3 amended: every concept id that is not pre-declared in
\* LegalCode.concepts is mapped to the first concept carrying that id in the
\* traversal; a later concept with the same id never replaces the record.
C3_FirstMentionWinsUnlessPredeclared ==
    Indexed => \A id \in IdsOf(Mentions) \ IdsOf(code.concepts) :
                   /\ id \in DictKeys(index)
                   /\ DictGet(index, id) = FirstWithId(Mentions, id)

C3_Witness ==
    /\ Indexed
    /\ code.concepts = <<>>
    /\ \E i, j \in 1..Len(Mentions) :
          /\ i < j
          /\ Mentions[i].id = Mentions[j].id
          /\ Mentions[i].label # Mentions[j].label
          /\ Mentions[i].defined_in # Mentions[j].defined_in
          /\ \A k \in 1..(i - 1) : Mentions[k].id # Mentions[i].id
          /\ DictGet(index, Mentions[j].id) = Mentions[i]

\* C4 as stated: the table has at most as many entries as there are
\* concepts listed in defines_concepts over all paragraphs of all norms.
C4_SizeAtMostMentions ==
    Indexed => Len(index) <= Len(Mentions)

\* C4 amended: the table has at most as many entries as there are concepts
\* listed in defines_concepts over all paragraphs of all norms plus concepts
\* pre-declared in LegalCode.concepts.
C4_SizeAtMostMentionsPlusPredeclared ==
    Indexed => Len(index) <= Len(Mentions) + Len(code.concepts)

C4_Witness ==
    /\ Indexed
    /\ Len(code.concepts) >= 1
    /\ Len(Mentions) >= 2
    /\ Len(index) < Len(Mentions) + Len(code.concepts)
    /\ Len(index) >= 2

\* C5: every key of the table equals the id of the record stored under it,
\* and no two entries hold records with the same id.
C5_KeysAreIds ==
    Indexed =>
        /\ \A i \in 1..Len(index) : index[i][2].id = index[i][1]
        /\ \A i, j \in 1..Len(index) : index[i][2].id = index[j][2].id => i = j

C5_Witness ==
    /\ Indexed
    /\ \E i, j \in 1..Len(code.concepts) :
          i < j /\ code.concepts[i].id = code.concepts[j].id
                /\ code.concepts[i] # code.concepts[j]
    /\ \E i, j \in 1..Len(Mentions) : i < j /\ Mentions[i].id = Mentions[j].id
    /\ Len(index) >= 2

\* C6: a pre-declared concept id is mapped to the first pre-declared record
\* with that id, whatever paragraph-local concepts carry the same id.
C6_PredeclaredWins ==
    Indexed => \A id \in IdsOf(code.concepts) :
                   /\ id \in DictKeys(index)
                   /\ DictGet(index, id) = FirstWithId(code.concepts, id)

C6_Witness ==
    /\ Indexed
    /\ \E i \in 1..Len(code.concepts), j \in 1..Len(Mentions) :
          /\ code.concepts[i].id = Mentions[j].id
          /\ code.concepts[i] # Mentions[j]
          /\ DictGet(index, Mentions[j].id) = code.concepts[i]

---------------------------------------------------------------------------
(* get_norm_body_text, parse_norms_from_xml, transform, to_json_ld.        *)
(*                                                                         *)
(* A <norm> element is the record                                          *)
(*   blocks  : both <metadaten> and <textdaten> are present,               *)
(*   enbez   : the text of <enbez>, "" when absent or empty,               *)
(*   titel   : the text of <titel>, "" when absent or empty,               *)
(*   content : [present |-> a <Content> element exists,                    *)
(*              items   |-> its parts in document order, each the text of  *)
(*                          a <P> element (tag "P") or other text]         *)

\* "".join(p_elem.itertext()) of the <P> elements of the content
PTexts(items) ==
    LET ps == SelectSeq(items, LAMBDA it : it.tag = "P")
    IN  [i \in 1..Len(ps) |-> ps[i].text]

\* "".join(content_elem.itertext())
AllText(items) == Concat([i \in 1..Len(items) |-> items[i].text])

get_norm_body_text(content_elem) ==
    IF ~content_elem.present THEN ""
    ELSE LET ps == StripNonEmpty(PTexts(content_elem.items))
         IN  IF ps = <<>> THEN Strip(AllText(content_elem.items))
             ELSE Join(ps, "\n\n")

\* NORM_IDENT_RE.search(text): group(1) of the leftmost match, "" for no match
RECURSIVE NormIdentSearch(_, _)
NormIdentSearch(s, i) ==
    IF i > Len(s) THEN ""
    ELSE LET m == ReferenceMatch(s, i)
         IN  IF m.e # 0 THEN SubSeq(s, m.s, m.e - 1)
             ELSE NormIdentSearch(s, i + 1)

\* one pass of the loop that tries the title before the label
ParseNorm_TitleFirst(norms, norm_elem) ==
    LET norm_identifier_text == Strip(norm_elem.enbez)
        title_text == Strip(norm_elem.titel)
        in_title == NormIdentSearch(title_text, 1)
        ident == IF in_title # "" THEN in_title
                 ELSE NormIdentSearch(norm_identifier_text, 1)
        norm_body == get_norm_body_text(norm_elem.content)
        current_norm == NormOf(ident, title_text, norm_body)
    IN  IF ~norm_elem.blocks \/ ident = "" THEN norms
        ELSE Append(norms, [current_norm EXCEPT
                 !.paragraphs = build_paragraphs(norm_body, current_norm)])

\* one pass of the loop over the <norm> elements
ParseNorm(norms, norm_elem) ==
    LET norm_identifier_text == Strip(norm_elem.enbez)
        title_text == Strip(norm_elem.titel)
        in_label == NormIdentSearch(norm_identifier_text, 1)
        ident == IF in_label # "" THEN in_label
                 ELSE NormIdentSearch(title_text, 1)
        norm_body == get_norm_body_text(norm_elem.content)
        current_norm == NormOf(ident, title_text, norm_body)
    IN  IF ~norm_elem.blocks \/ ident = "" THEN norms
        ELSE Append(norms, [current_norm EXCEPT
                 !.paragraphs = build_paragraphs(norm_body, current_norm)])

RECURSIVE ParseNorms(_, _)
ParseNorms(norms, elems) ==
    IF elems = <<>> THEN norms
    ELSE ParseNorms(ParseNorm(norms, Head(elems)), Tail(elems))

parse_norms_from_xml(root) == ParseNorms(<<>>, root)

transform(root) == [EmptyCode EXCEPT !.norms = parse_norms_from_xml(root)]

\* LegalCode.to_json_ld: model_dump() plus "@context" and "conceptIndex"
to_json_ld(lc) ==
    lc @@ [context |-> "bgb-onto", conceptIndex |-> build_concept_index(lc)]

\* main without --jsonld: model_dump() with data['concepts'] replaced by the
\* values of the concept index
model_dump_with_concepts(lc) ==
    [lc EXCEPT !.concepts = DictValues(build_concept_index(lc))]

---------------------------------------------------------------------------
(* build_graph.  A triple is <<subject, predicate, object>>; subject and   *)
(* predicate are URI strings, the object is a URIRef or a Literal.  An     *)
(* rdflib Graph is the set of its triples.                                 *)

BASE_ONTO == "http://example.org/bgb/ontology/"
BASE_DATA == "http://example.org/bgb/data/"
RDF_type == "http://www.w3.org/1999/02/22-rdf-syntax-ns#type"
RDFS_label == "http://www.w3.org/2000/01/rdf-schema#label"
DCTERMS_title == "http://purl.org/dc/terms/title"
XSD_boolean == "http://www.w3.org/2001/XMLSchema#boolean"

URIRef(u) == [kind |-> "uri", value |-> u, datatype |-> ""]

\* Literal(value) for a str, and for a bool (lexical form "true" / "false")
Literal(v) == [kind |-> "literal", value |-> v, datatype |-> ""]
BoolLiteral(b) ==
    [kind |-> "literal", value |-> IF b THEN "true" ELSE "false",
     datatype |-> XSD_boolean]

curie_to_uri(curie) ==
    IF StartsWith(curie, "bgb-data:") THEN BASE_DATA \o AfterFirst(curie, ":")
    ELSE IF StartsWith(curie, "bgb-onto:") THEN BASE_ONTO \o AfterFirst(curie, ":")
    ELSE curie

CLASS_LEGAL_CODE == curie_to_uri("bgb-onto:LegalCode")
CLASS_NORM == curie_to_uri("bgb-onto:Norm")
CLASS_PARAGRAPH == curie_to_uri("bgb-onto:Paragraph")
CLASS_CONCEPT == curie_to_uri("bgb-onto:LegalConcept")
PROP_HAS_NORM == curie_to_uri("bgb-onto:hasNorm")
PROP_HAS_PARAGRAPH == curie_to_uri("bgb-onto:hasParagraph")
PROP_DEFINES == curie_to_uri("bgb-onto:defines")
PROP_REFERS_TO == curie_to_uri("bgb-onto:refersTo")
PROP_NORM_IDENTIFIER == curie_to_uri("bgb-onto:normIdentifier")
PROP_PARA_IDENTIFIER == curie_to_uri("bgb-onto:paragraphIdentifier")
PROP_TEXT_CONTENT == curie_to_uri("bgb-onto:textContent")
PROP_IS_REPEALED == curie_to_uri("bgb-onto:isRepealed")

\* every target of a reference is typed Norm as well
ReferenceTriples_TypedTargets(para_uri, para) ==
    UNION {{<<para_uri, PROP_REFERS_TO,
              URIRef(curie_to_uri(para.refers_to[i].target_norm_id))>>,
            <<curie_to_uri(para.refers_to[i].target_norm_id), RDF_type,
              URIRef(CLASS_NORM)>>} : i \in 1..Len(para.refers_to)}

\* for ref in para.get("refers_to", []): g.add((para_uri, PROP_REFERS_TO, target_uri))
ReferenceTriples(para_uri, para) ==
    {<<para_uri, PROP_REFERS_TO,
       URIRef(curie_to_uri(para.refers_to[i].target_norm_id))>> :
       i \in 1..Len(para.refers_to)}

\* the paragraph is linked to its norm but not typed
ParagraphTriples_Untyped(norm_uri, para) ==
    LET para_uri == curie_to_uri(para.id)
    IN  {<<norm_uri, PROP_HAS_PARAGRAPH, URIRef(para_uri)>>,
         <<para_uri, PROP_PARA_IDENTIFIER, Literal(para.paragraph_identifier)>>,
         <<para_uri, PROP_TEXT_CONTENT, Literal(para.text_content)>>}
        \cup ReferenceTriples(para_uri, para)

\* the triples added for one paragraph of a norm
ParagraphTriples(norm_uri, para) ==
    LET para_uri == curie_to_uri(para.id)
    IN  {<<para_uri, RDF_type, URIRef(CLASS_PARAGRAPH)>>,
         <<norm_uri, PROP_HAS_PARAGRAPH, URIRef(para_uri)>>,
         <<para_uri, PROP_PARA_IDENTIFIER, Literal(para.paragraph_identifier)>>,
         <<para_uri, PROP_TEXT_CONTENT, Literal(para.text_content)>>}
        \cup ReferenceTriples(para_uri, para)

\* the triples added for one norm
NormTriples(code_uri, n) ==
    LET norm_uri == curie_to_uri(n.id)
    IN  {<<norm_uri, RDF_type, URIRef(CLASS_NORM)>>,
         <<code_uri, PROP_HAS_NORM, URIRef(norm_uri)>>,
         <<norm_uri, PROP_NORM_IDENTIFIER, Literal(n.norm_identifier)>>,
         <<norm_uri, PROP_IS_REPEALED, BoolLiteral(n.is_repealed)>>}
        \cup (IF n.title # "" THEN {<<norm_uri, DCTERMS_title, Literal(n.title)>>}
              ELSE {})
        \cup UNION {ParagraphTriples(norm_uri, n.paragraphs[i]) :
                      i \in 1..Len(n.paragraphs)}

\* the triples added for one concept of the concept index
ConceptTriples(concept) ==
    LET concept_uri == curie_to_uri(concept.id)
    IN  {<<concept_uri, RDF_type, URIRef(CLASS_CONCEPT)>>,
         <<concept_uri, RDFS_label, Literal(concept.label)>>}
        \cup (IF concept.defined_in # ""
              THEN {<<curie_to_uri(concept.defined_in), PROP_DEFINES,
                      URIRef(concept_uri)>>}
              ELSE {})

\* data.get("conceptIndex", {})
ConceptIndexOf(d) ==
    IF "conceptIndex" \in DOMAIN d THEN d.conceptIndex ELSE <<>>

build_graph(d) ==
    LET code_uri == IF "id" \in DOMAIN d THEN curie_to_uri(d.id)
                    ELSE curie_to_uri("bgb-data:BGB")
        concept_index == DictValues(ConceptIndexOf(d))
    IN  {<<code_uri, RDF_type, URIRef(CLASS_LEGAL_CODE)>>,
         <<code_uri, DCTERMS_title, Literal(d.title)>>}
        \cup UNION {NormTriples(code_uri, d.norms[i]) : i \in 1..Len(d.norms)}
        \cup UNION {ConceptTriples(concept_index[i]) :
                      i \in 1..Len(concept_index)}

---------------------------------------------------------------------------
(* BGBSolrIndexer.  The order in which an rdflib Graph yields its triples  *)
(* is not specified: a list filled by iterating the graph is the bag of    *)
(* its elements, and the element taken by "for ...: break" is any of the   *)
(* candidates.  The graph is not changed between two iterations of one     *)
(* create_document call, so both iterations over the textContent objects   *)
(* start with the same object.                                             *)

BGB_DATA == "http://example.org/bgb/data/"
BGB_ONTO == "http://example.org/bgb/ontology/"

\* create_document returned None
None == [none |-> TRUE]

\* [str(obj) for obj in self.graph.objects(subject, predicate)], as a set
Objects(g, subject, predicate) ==
    {t[3].value : t \in {u \in g : u[1] = subject /\ u[2] = predicate}}

\* set(self.graph.subjects())
Subjects(g) == {t[1] : t \in g}

\* the possible outcomes of "for obj in objects(subject, p): x = obj; break"
\* for the three predicates read that way: no object ({}) or one of them
FirstPredicates == {PROP_TEXT_CONTENT, DCTERMS_title, RDFS_label}

FirstChoices(g, subject) ==
    {f \in [FirstPredicates -> {{}} \cup {{o} : o \in UNION
                {Objects(g, subject, p) : p \in FirstPredicates}}] :
        \A p \in FirstPredicates :
            IF Objects(g, subject, p) = {} THEN f[p] = {}
            ELSE \E o \in Objects(g, subject, p) : f[p] = {o}}

\* re.search(prefix + r"(\w+)", uri): group(1) of the leftmost match, "" for
\* no match
RECURSIVE SearchWordAfter(_, _, _)
SearchWordAfter(prefix, uri, i) ==
    IF i + Len(prefix) > Len(uri) THEN ""
    ELSE IF /\ SubSeq(uri, i, i + Len(prefix) - 1) = prefix
            /\ IsWordAt(uri, i + Len(prefix))
         THEN SubSeq(uri, i + Len(prefix),
                     RunEnd(uri, i + Len(prefix), WordChars) - 1)
         ELSE SearchWordAfter(prefix, uri, i + 1)

extract_norm_number(uri) == SearchWordAfter("norm_", uri, 1)

extract_paragraph_number(uri) == SearchWordAfter("para_", uri, 1)

\* the rdfs:label triples of the subjects under BGB_DATA.concept_
ConceptLabelTriples(g) ==
    {t \in g : t[2] = RDFS_label /\ StartsWith(t[1], BGB_DATA \o "concept_")}

\* the list of str(concept_uri), one entry per matching triple
SubjectBag(triples) ==
    [u \in {t[1] : t \in triples} |->
        Cardinality({t \in triples : t[1] = u})]

\* get_related_concepts with "label.lower() in text_content"
get_related_concepts_CaseSensitive(g, subject_uri, first) ==
    IF first[PROP_TEXT_CONTENT] = {} THEN EmptyBag
    ELSE LET text_content == CHOOSE o \in first[PROP_TEXT_CONTENT] : TRUE
         IN  IF text_content = "" THEN EmptyBag
             ELSE SubjectBag({t \in ConceptLabelTriples(g) :
                      Contains(text_content, StrLower(t[3].value))})

get_related_concepts(g, subject_uri, first) ==
    IF first[PROP_TEXT_CONTENT] = {} THEN EmptyBag
    ELSE LET text_content == CHOOSE o \in first[PROP_TEXT_CONTENT] : TRUE
         IN  IF text_content = "" THEN EmptyBag
             ELSE SubjectBag({t \in ConceptLabelTriples(g) :
                      Contains(StrLower(text_content), StrLower(t[3].value))})

\* doc[key] = value for the value of a "for ...: break" loop, if any
FirstField(key, first, predicate) ==
    IF first[predicate] = {} THEN <<>>
    ELSE key :> (CHOOSE o \in first[predicate] : TRUE)

\* doc[key] = number if the number was found
NumberField(key, number) == IF number = "" THEN <<>> ELSE key :> number

\* a subject of unknown type gets the document filled so far
UnknownType_Partial(doc) == doc

\* else: return None
UnknownType(doc) == None

create_document(g, subject_uri, first) ==
    LET rdf_type == SetToBag(Objects(g, subject_uri, RDF_type))
        doc == [id |-> subject_uri, uri |-> subject_uri, rdf_type |-> rdf_type]
        norm_number == extract_norm_number(subject_uri)
    IN  IF BagIn(BGB_ONTO \o "LegalCode", rdf_type)
        THEN doc @@ [type |-> "legal_code",
                     has_norm |-> SetToBag(Objects(g, subject_uri,
                                                   BGB_ONTO \o "hasNorm"))]
                 @@ FirstField("title", first, DCTERMS_title)
        ELSE IF BagIn(BGB_ONTO \o "LegalConcept", rdf_type)
        THEN doc @@ [type |-> "legal_concept"]
                 @@ FirstField("label", first, RDFS_label)
        ELSE IF BagIn(BGB_ONTO \o "Norm", rdf_type)
        THEN doc @@ [type |-> "norm",
                     has_paragraph |-> SetToBag(Objects(g, subject_uri,
                                                  BGB_ONTO \o "hasParagraph"))]
                 @@ NumberField("norm_number", norm_number)
        ELSE IF BagIn(BGB_ONTO \o "Paragraph", rdf_type)
        THEN doc @@ [type |-> "paragraph",
                     mentions_concept |->
                         get_related_concepts(g, subject_uri, first)]
                 @@ NumberField("paragraph_number",
                                extract_paragraph_number(subject_uri))
                 @@ NumberField("norm_number", norm_number)
                 @@ (IF norm_number = "" THEN <<>>
                     ELSE "belongs_to_norm" :>
                              (BGB_DATA \o "norm_" \o norm_number))
                 @@ FirstField("text_content", first, PROP_TEXT_CONTENT)
        ELSE UnknownType(doc)

---------------------------------------------------------------------------
(* The run of the three programs on one input document: transform's main   *)
(* writes the JSON file, build_graph's main reads it and writes the Turtle *)
(* file, the indexer loads that file and create_document is called on      *)
(* subjects of the graph.                                                  *)

\* number of <norm> elements of the input document
MaxNodes == 2

Content(items) == [present |-> TRUE, items |-> items]
NoContent == [present |-> FALSE, items |-> <<>>]
P(text) == [tag |-> "P", text |-> text]
Other(text) == [tag |-> "other", text |-> text]

\* <norm> elements: a definition followed by a numbered paragraph; a norm
\* identified by its title whose two paragraphs share the number 1; a
\* repealed norm without content, with the identifier of the second in its
\* label and another identifier in its title; an
\* element without identifier and blank <P> elements; one without blocks
NodePool ==
    {[blocks |-> TRUE, enbez |-> " @ 13b ", titel |-> "Verbraucher",
      content |-> Content(<<P("Verbraucher ist jede Person."),
                            P(" (1) Verbraucher ist, wer VERBRAUCHERSCHUTZ nach @ 14 hat. ")>>)],
     [blocks |-> TRUE, enbez |-> "", titel |-> "@14 Sachen",
      content |-> Content(<<Other("(1) Kein Verbraucherschutz. "),
                            Other("(1) Sache ist, was k|rperlich ist.")>>)],
     [blocks |-> TRUE, enbez |-> "@ 14", titel |-> "(Weggefallen), vgl. @ 90a",
      content |-> NoContent],
     [blocks |-> TRUE, enbez |-> "Anhang", titel |-> "@ Inhalt",
      content |-> Content(<<P(" "), Other("Sache ist x")>>)],
     [blocks |-> FALSE, enbez |-> "@ 1", titel |-> "",
      content |-> NoContent]}

XmlDocuments == UNION {[1..n -> NodePool] : n \in 0..MaxNodes}

InitPipeline ==
    /\ body = ""
    /\ norm = NormOf("1", "", "")
    /\ paragraphs = <<>>
    /\ pc = "transform"
    /\ code = EmptyCode
    /\ index = <<>>
    /\ xml \in XmlDocuments
    /\ data = <<>>
    /\ ttl = {}
    /\ graph = {}
    /\ docs = <<>>
    /\ NoIndexing
    /\ fs = GoodFiles

\* if out_dir and not os.path.exists(out_dir): os.makedirs(out_dir)
MakeDirs(f) ==
    IF f.out_dir = "missing"
    THEN [f EXCEPT !.out_dir = "exists", !.made_dir = TRUE]
    ELSE f

\* with open(args.output, "w") as f: json.dump(data, f), where open or a
\* write may raise IOError
WriteOutput(f) ==
    IF f.disk = "open_fails" THEN f
    ELSE IF f.disk = "write_fails" THEN [f EXCEPT !.opened = TRUE]
    ELSE [f EXCEPT !.opened = TRUE, !.written = TRUE]

\* the output directory is made before the input is parsed
Transform_MakeDirsFirst ==
    /\ pc = "transform"
    /\ fs' = MakeDirs(fs)
    /\ IF fs.input = "ok"
       THEN code' = transform(xml) /\ pc' = "dump"
       ELSE pc' = "failed" /\ UNCHANGED code
    /\ UNCHANGED <<body, norm, paragraphs, index, xml, data, ttl, graph, docs>>
    /\ UNCHANGED indexing

\* main up to the parse: code = transform(args.input), or return 1 on
\* ET.ParseError and on FileNotFoundError
Transform ==
    /\ pc = "transform"
    /\ IF fs.input = "ok"
       THEN code' = transform(xml) /\ pc' = "dump"
       ELSE pc' = "failed" /\ UNCHANGED code
    /\ UNCHANGED <<body, norm, paragraphs, index, xml, data, ttl, graph, docs, fs>>
    /\ UNCHANGED indexing

\* the rest of main: the concept index is built, the output directory is
\* made if it is missing and the dict is written, with or without
\* --jsonld; return 1 on IOError
Dump(jsonld) ==
    /\ pc = "dump"
    /\ index' = build_concept_index(code)
    /\ fs' = WriteOutput(MakeDirs(fs))
    /\ IF fs'.written
       THEN /\ data' = (IF jsonld THEN to_json_ld(code)
                        ELSE model_dump_with_concepts(code))
            /\ pc' = "build_graph"
       ELSE pc' = "failed" /\ UNCHANGED data
    /\ UNCHANGED <<body, norm, paragraphs, code, xml, ttl, graph, docs>>
    /\ UNCHANGED indexing

\* build_graph's main: g = build_graph(data), serialized to the output file
BuildGraph ==
    /\ pc = "build_graph"
    /\ ttl' = build_graph(data)
    /\ pc' = "load_ttl"
    /\ UNCHANGED <<body, norm, paragraphs, code, index, xml, data, graph, docs>>
    /\ UNCHANGED <<indexing, fs>>

\* indexer.load_ttl: the triples of the file are added to the empty graph
LoadTtl ==
    /\ pc = "load_ttl"
    /\ graph' = graph \cup ttl
    /\ pc' = "index"
    /\ UNCHANGED <<body, norm, paragraphs, code, index, xml, data, ttl, docs>>
    /\ UNCHANGED <<indexing, fs>>

\* doc = self.create_document(subject) for a subject not yet visited
CreateDocument(subject) ==
    /\ pc = "index"
    /\ subject \in Subjects(graph) \ DOMAIN docs
    /\ \E first \in FirstChoices(graph, subject) :
           docs' = docs @@ (subject :> create_document(graph, subject, first))
    /\ UNCHANGED <<body, norm, paragraphs, pc, code, index, xml, data, ttl, graph>>
    /\ UNCHANGED <<indexing, fs>>

NextPipeline ==
    \/ Transform
    \/ \E jsonld \in BOOLEAN : Dump(jsonld)
    \/ BuildGraph
    \/ LoadTtl
    \/ \E subject \in Subjects(graph) : CreateDocument(subject)

SpecPipeline == InitPipeline /\ [][NextPipeline]_vars

---------------------------------------------------------------------------
(* transform's main alone, on every kind of input and output location.     *)

Inputs == {"ok", "malformed", "missing"}
OutDirs == {"none", "exists", "missing"}
Disks == {"ok", "open_fails", "write_fails"}

\* a document that is malformed or missing has no elements
InitMain ==
    /\ body = ""
    /\ norm = NormOf("1", "", "")
    /\ paragraphs = <<>>
    /\ pc = "transform"
    /\ code = EmptyCode
    /\ index = <<>>
    /\ fs \in {FilesOf(input, out_dir, disk) :
                  input \in Inputs, out_dir \in OutDirs, disk \in Disks}
    /\ xml \in (IF fs.input = "ok" THEN XmlDocuments ELSE {<<>>})
    /\ data = <<>>
    /\ ttl = {}
    /\ graph = {}
    /\ docs = <<>>
    /\ NoIndexing

NextMain ==
    \/ Transform
    \/ \E jsonld \in BOOLEAN : Dump(jsonld)

SpecMain == InitMain /\ [][NextMain]_vars

\* C19: when the input document cannot be parsed (it is malformed, or
\* there is no file), main returns the failure status, and it has not made
\* the output directory, not opened and not written the output file: the
\* output location is as it was before the run.
C19_ParseFailureLeavesNoOutput ==
    fs.input # "ok" =>
        /\ pc \in {"transform", "failed"}
        /\ ~fs.made_dir /\ ~fs.opened /\ ~fs.written
        /\ fs = FilesOf(fs.input, fs.out_dir, fs.disk)
        /\ data = <<>>

\* a run on a malformed document with an output directory to be made has
\* returned 1
C19_Witness ==
    /\ fs.input = "malformed"
    /\ pc = "failed"
    /\ fs.out_dir = "missing"
    /\ fs.disk = "ok"

---------------------------------------------------------------------------
(* Properties of the search documents (specification SpecPipeline).        *)

\* the documents created so far whose type is "paragraph"
ParagraphDocs ==
    {d \in {docs[s] : s \in DOMAIN docs} : d # None /\ d.type = "paragraph"}

\* the concepts the graph knows, and the labels the graph gives them
KnownConcepts == {t[1] : t \in {u \in graph : u[2] = RDF_type
                                   /\ u[3] = URIRef(CLASS_CONCEPT)}}

LabelsOf(concept) == Objects(graph, concept, RDFS_label)

\* label occurs in text at some offset when letter case is ignored; no
\* condition on the characters around the occurrence
OccursIgnoringCase(label, text) ==
    \E off \in 0..(Len(text) - Len(label)) :
        \A i \in 1..Len(label) :
            LowerChar(Char(label, i)) = LowerChar(Char(text, off + i))

\* C9: for every paragraph document, mentions_concept lists exactly the
\* known concepts one of whose labels occurs in the document's text_content
\* when letter case is ignored, wherever in the text the label occurs (also
\* inside a longer word).
C9_MentionsIffSubstring ==
    \A d \in ParagraphDocs :
        /\ \A u \in BagToSet(d.mentions_concept) : u \in KnownConcepts
        /\ \A c \in KnownConcepts :
               BagIn(c, d.mentions_concept) <=>
                   /\ "text_content" \in DOMAIN d
                   /\ \E l \in LabelsOf(c) : OccursIgnoringCase(l, d.text_content)

\* a paragraph whose text holds "Verbraucherschutz" lists the concept
\* labelled "Verbraucher", and a paragraph does not list a known concept
C9_Witness ==
    /\ \E d \in ParagraphDocs :
          /\ Contains(d.text_content, "Verbraucherschutz")
          /\ ~Contains(d.text_content, "Verbraucher ")
          /\ "Verbraucher" \in LabelsOf(BGB_DATA \o "concept_Verbraucher")
          /\ BagIn(BGB_DATA \o "concept_Verbraucher", d.mentions_concept)
    /\ \E d \in ParagraphDocs :
          /\ d.text_content # ""
          /\ \E c \in KnownConcepts : ~BagIn(c, d.mentions_concept)

\* the Norms that own the paragraph of a document: the subjects of the
\* hasParagraph triples whose object is the paragraph
OwningNorms(d) ==
    {t[1] : t \in {u \in graph : u[2] = PROP_HAS_PARAGRAPH
                                  /\ u[3] = URIRef(d.id)}}

\* what follows the prefix in s
Suffix(prefix, s) == SubSeq(s, Len(prefix) + 1, Len(s))

\* C17: every Paragraph document names its owning norm: belongs_to_norm is
\* the subject of the hasParagraph triple whose object is the paragraph,
\* norm_number is the number token of that Norm (what follows "norm_" in
\* its id) and paragraph_number is the paragraph's own number token (what
\* follows "_para_" after the id of the Norm).
C17_ParagraphNamesOwningNorm ==
    \A d \in ParagraphDocs :
        \A n \in OwningNorms(d) :
            /\ "belongs_to_norm" \in DOMAIN d /\ d.belongs_to_norm = n
            /\ "norm_number" \in DOMAIN d
            /\ d.norm_number = Suffix(BGB_DATA \o "norm_", n)
            /\ "paragraph_number" \in DOMAIN d
            /\ d.paragraph_number = Suffix(n \o "_para_", d.id)

\* the triple set of build_graph's run has been written
GraphBuilt == pc \in {"load_ttl", "index"}

\* the paragraph -> concept edges of the structured records, as pairs of
\* the paragraph id and the concept id
DefinitionEdges ==
    UNION {{<<ParagraphsOf(code)[i].id, ParagraphsOf(code)[i].defines_concepts[k].id>> :
               k \in 1..Len(ParagraphsOf(code)[i].defines_concepts)} :
           i \in 1..Len(ParagraphsOf(code))}

\* C18: for every paragraph p of the structured records and every concept c
\* among the concepts p defines, the triple set built by build_graph holds
\* the definition triple (p, defines, c); a triple set holds a triple at
\* most once.
C18_DefinitionTriplePerEdge ==
    GraphBuilt =>
        \A e \in DefinitionEdges :
            <<curie_to_uri(e[1]), PROP_DEFINES, URIRef(curie_to_uri(e[2]))>> \in ttl

\* C20: the triple set built from the dump of a LegalCode is the same
\* whether the dump was written with the context block (--jsonld) or
\* without it, and every entry of the concept table is a subject of type
\* LegalConcept with its label.
C20_SameGraphWithAndWithoutContext ==
    GraphBuilt =>
        /\ ttl = build_graph(to_json_ld(code))
        /\ ttl = build_graph(model_dump_with_concepts(code))
        /\ \A i \in 1..Len(index) :
              /\ <<curie_to_uri(index[i][1]), RDF_type, URIRef(CLASS_CONCEPT)>> \in ttl
              /\ <<curie_to_uri(index[i][1]), RDFS_label,
                    Literal(index[i][2].label)>> \in ttl

\* s is typed class in the triple set written
TypedAs(s, class) == <<s, RDF_type, URIRef(class)>> \in ttl

\* C24: for every Norm n of the structured records and every Paragraph p
\* of n, the triple set holds the type assertions of n as Norm and of p as
\* Paragraph and the containment triples (code, hasNorm, n) and
\* (n, hasParagraph, p); every hasParagraph triple has a subject typed Norm
\* and an object typed Paragraph.
C24_TypesAndContainment ==
    GraphBuilt =>
        /\ \A i \in 1..Len(code.norms) :
              LET n == curie_to_uri(code.norms[i].id)
              IN  /\ TypedAs(n, CLASS_NORM)
                  /\ <<curie_to_uri(code.id), PROP_HAS_NORM, URIRef(n)>> \in ttl
                  /\ \A j \in 1..Len(code.norms[i].paragraphs) :
                        LET p == curie_to_uri(code.norms[i].paragraphs[j].id)
                        IN  /\ TypedAs(p, CLASS_PARAGRAPH)
                            /\ <<n, PROP_HAS_PARAGRAPH, URIRef(p)>> \in ttl
        /\ \A t \in ttl :
              t[2] = PROP_HAS_PARAGRAPH =>
                  /\ TypedAs(t[1], CLASS_NORM)
                  /\ t[3].kind = "uri"
                  /\ TypedAs(t[3].value, CLASS_PARAGRAPH)

\* a triple set built from two norms, one of them with two paragraphs
C24_Witness ==
    /\ GraphBuilt
    /\ Len(code.norms) = 2
    /\ \E i \in 1..2 : Len(code.norms[i].paragraphs) >= 2
    /\ Cardinality({t \in ttl : t[2] = PROP_HAS_PARAGRAPH}) >= 3

\* the Reference records of the structured records, as pairs of the
\* paragraph id and the target id, and the ids of the Norm records
ReferenceEdges ==
    UNION {{<<ParagraphsOf(code)[i].id,
              ParagraphsOf(code)[i].refers_to[k].target_norm_id>> :
               k \in 1..Len(ParagraphsOf(code)[i].refers_to)} :
           i \in 1..Len(ParagraphsOf(code))}
NormIds == {code.norms[i].id : i \in 1..Len(code.norms)}

\* C25: for every Reference record of a paragraph p the triple set holds
\* (p, refersTo, target), whether a Norm record with the target id exists
\* or not; a target without Norm record is the subject of no triple (no
\* type assertion, no attribute), so that the indexer, which visits the
\* subjects of the graph, creates no document for it.
C25_DanglingReferencesKept ==
    GraphBuilt =>
        \A e \in ReferenceEdges :
            /\ <<curie_to_uri(e[1]), PROP_REFERS_TO, URIRef(curie_to_uri(e[2]))>>
                   \in ttl
            /\ e[2] \notin NormIds =>
                  /\ \A t \in ttl : t[1] # curie_to_uri(e[2])
                  /\ curie_to_uri(e[2]) \notin Subjects(graph)
                  /\ \A s \in DOMAIN docs :
                        docs[s] # None => docs[s].id # curie_to_uri(e[2])

\* all subjects of a graph with a dangling reference have been visited by
\* the indexer, and the paragraph that refers got its document
C25_Witness ==
    /\ pc = "index"
    /\ DOMAIN docs = Subjects(graph)
    /\ \E e \in ReferenceEdges :
          /\ e[2] \notin NormIds
          /\ docs[curie_to_uri(e[1])] # None

\* the indexer has visited every subject of the graph
AllVisited == pc = "index" /\ DOMAIN docs = Subjects(graph)

\* C29: after build_graph and a complete run of the indexer there is, for
\* every Paragraph record of the transform, a Paragraph document with the
\* text_content of that record, and there are as many Paragraph documents
\* as Paragraph records.
C29_NoParagraphLost ==
    AllVisited =>
        /\ \A i \in 1..Len(ParagraphsOf(code)) :
              \E d \in ParagraphDocs :
                  /\ d.id = curie_to_uri(ParagraphsOf(code)[i].id)
                  /\ "text_content" \in DOMAIN d
                  /\ d.text_content = ParagraphsOf(code)[i].text_content
        /\ Cardinality(ParagraphDocs) = Len(ParagraphsOf(code))

\* C30: for every concept c of the global concept table whose defined_in
\* is the paragraph p, the document of p lists the id of c in
\* mentions_concept.
C30_DefinedConceptIsMentioned ==
    AllVisited =>
        \A i \in 1..Len(index) :
            LET c == index[i][2]
            IN  c.defined_in # "" =>
                    \E d \in ParagraphDocs :
                        /\ d.id = curie_to_uri(c.defined_in)
                        /\ BagIn(curie_to_uri(c.id), d.mentions_concept)

---------------------------------------------------------------------------
(* Properties of parse_norms_from_xml (specification SpecPipeline).        *)

Transformed == pc # "transform"

\* the identifier pattern matches at position i of s: the section sign at
\* i, any white space, then a digit at j
DigitsStartAt(s, i, j) ==
    /\ Char(s, i) = "@"
    /\ \A k \in (i + 1)..(j - 1) : Char(s, k) \in Whitespace
    /\ Char(s, j) \in Digits

MatchesAt(s, i) == \E j \in (i + 1)..Len(s) : DigitsStartAt(s, i, j)

PatternMatches(s) == \E i \in 1..Len(s) : MatchesAt(s, i)

\* the token captured by the match at i: the longest run of digits and the
\* ASCII letter right after it, if there is one
TokenAt(s, i) ==
    LET j == CHOOSE k \in (i + 1)..Len(s) : DigitsStartAt(s, i, k)
        d == CHOOSE k \in j..Len(s) :
                 /\ \A m \in j..k : Char(s, m) \in Digits
                 /\ k = Len(s) \/ Char(s, k + 1) \notin Digits
    IN  SubSeq(s, j, IF d < Len(s) /\ Char(s, d + 1) \in AsciiLetters
                     THEN d + 1 ELSE d)

\* the token captured by the leftmost match
LeftmostToken(s) ==
    TokenAt(s, CHOOSE i \in 1..Len(s) :
                   MatchesAt(s, i) /\ \A k \in 1..(i - 1) : ~MatchesAt(s, k))

\* the provision nodes whose label or title matches, in document order, and
\* the token the claim assigns to each
Identified ==
    SelectSeq(xml, LAMBDA n : /\ n.blocks
                              /\ PatternMatches(n.enbez) \/ PatternMatches(n.titel))

TokenOf(n) ==
    IF PatternMatches(n.enbez) THEN LeftmostToken(n.enbez)
    ELSE LeftmostToken(n.titel)

\* C12: the norms produced are, in document order, those of the provision
\* nodes whose label or title matches the identifier pattern; each has
\* norm_identifier "§ " + token and id "bgb-data:norm_" + token, where the
\* token is the one captured in the label if the label matches and the one
\* captured in the title otherwise.
C12_NormIdentifierFromLabelThenTitle ==
    Transformed =>
        /\ Len(code.norms) = Len(Identified)
        /\ \A i \in 1..Len(Identified) :
              /\ code.norms[i].norm_identifier = "@ " \o TokenOf(Identified[i])
              /\ code.norms[i].id = "bgb-data:norm_" \o TokenOf(Identified[i])

\* a node whose label and title capture different tokens, and a node
\* identified by its title only
C12_Witness ==
    /\ Transformed
    /\ \E i \in 1..Len(Identified) :
          /\ PatternMatches(Identified[i].enbez)
          /\ PatternMatches(Identified[i].titel)
          /\ LeftmostToken(Identified[i].enbez) # LeftmostToken(Identified[i].titel)
          /\ code.norms[i].id = "bgb-data:norm_" \o LeftmostToken(Identified[i].enbez)
    /\ \E i \in 1..Len(Identified) :
          /\ ~PatternMatches(Identified[i].enbez)
          /\ code.norms[i].id = "bgb-data:norm_" \o LeftmostToken(Identified[i].titel)

\* C28: no two Norm records of one run of parse_norms_from_xml share an
\* id, and the triple set built from them has as many subjects typed Norm
\* as there are Norm records.
C28_DistinctNormIds ==
    /\ Transformed =>
          \A i, j \in 1..Len(code.norms) :
              code.norms[i].id = code.norms[j].id => i = j
    /\ GraphBuilt =>
          Cardinality({t[1] : t \in {u \in ttl : u[2] = RDF_type
                                          /\ u[3] = URIRef(CLASS_NORM)}})
              = Len(code.norms)

---------------------------------------------------------------------------
(* index_all, index_documents and commit_index.  The search index is       *)
(* [log     |-> the requests received, in order, each with its outcome,    *)
(*  store   |-> the documents held, one per id,                            *)
(*  visible |-> the documents held at the last commit].                    *)
(* A request either is acknowledged or fails with a RequestException; a    *)
(* failed request may or may not have reached the index.                   *)

\* largest --batch-size tried
MaxBatchSize == 2

BatchSizes == 0..MaxBatchSize

\* the documents of the batch replace the stored documents with their ids
Upsert(store, documents) ==
    {d \in store : \A i \in 1..Len(documents) : documents[i].id # d.id}
    \cup {documents[i] : i \in 1..Len(documents)}

\* requests.post(self.update_url, data=json.dumps(documents))
SolrAdd(s, documents, ok, applied) ==
    [log     |-> Append(s.log, [op |-> "add", docs |-> documents, ok |-> ok]),
     store   |-> IF ok \/ applied THEN Upsert(s.store, documents) ELSE s.store,
     visible |-> s.visible]

\* requests.post(self.update_url, data=json.dumps({"commit": {}}))
SolrCommit(s, ok, applied) ==
    [log     |-> Append(s.log, [op |-> "commit", docs |-> <<>>, ok |-> ok]),
     store   |-> s.store,
     visible |-> IF ok \/ applied THEN s.store ELSE s.visible]

\* triples of a Turtle file that build_graph did not write: a subject of
\* another type, a subject without type, and a second type for the code
ForeignTriples ==
    {<<BGB_ONTO \o "Norm", RDF_type,
       URIRef("http://www.w3.org/2002/07/owl#Class")>>,
     <<BGB_DATA \o "note_1", RDFS_label, Literal("Notiz")>>,
     <<BGB_DATA \o "BGB", RDF_type,
       URIRef("http://www.w3.org/2002/07/owl#Thing")>>}

\* the input documents whose graphs are indexed
IndexedDocuments == {<<>>} \cup {<<n>> : n \in NodePool}

\* the Turtle files loaded: empty, foreign triples only, and the graphs of
\* the input documents with and without the foreign triples
TtlFiles ==
    {{}, ForeignTriples}
    \cup {build_graph(to_json_ld(transform(x))) \cup extra :
            x \in IndexedDocuments, extra \in {{}, ForeignTriples}}

InitIndexAll ==
    /\ body = ""
    /\ norm = NormOf("1", "", "")
    /\ paragraphs = <<>>
    /\ pc = "load_ttl"
    /\ code = EmptyCode
    /\ index = <<>>
    /\ xml = <<>>
    /\ data = <<>>
    /\ ttl \in TtlFiles
    /\ graph = {}
    /\ docs = <<>>
    /\ NoIndexing
    /\ fs = GoodFiles

\* the batch is kept after it was sent
AfterBatch_Keep(r) == r

\* documents = []
AfterBatch(r) == [r EXCEPT !.documents = <<>>]

\* index_documents logs the RequestException and goes on
AfterAddBatch_Swallow(ok, continue_at) == continue_at

\* index_documents returns when the request is acknowledged and re-raises
\* the RequestException otherwise: where the run continues
AfterAddBatch(ok, continue_at) == IF ok THEN continue_at ELSE "raised"

\* index_all up to the loop: subjects = set(self.graph.subjects())
IndexAllStart(batch_size) ==
    /\ pc \in {"index", "cleared"}
    /\ run' = [batch_size |-> batch_size, todo |-> Subjects(graph),
               documents |-> <<>>, created |-> <<>>]
    /\ pc' = "loop"
    /\ UNCHANGED <<body, norm, paragraphs, code, index, xml, data, ttl, graph,
                   docs, solr, fs>>

\* one pass of "for subject in subjects", with the add-batch it may send
VisitSubject(subject) ==
    /\ pc = "loop"
    /\ subject \in run.todo
    /\ \E first \in FirstChoices(graph, subject) :
          LET doc == create_document(graph, subject, first)
              documents == Append(run.documents, doc)
              visited == [run EXCEPT !.todo = @ \ {subject}]
              appended == [visited EXCEPT !.documents = documents,
                                          !.created = Append(@, doc)]
          IN  IF doc = None
              THEN run' = visited /\ UNCHANGED <<pc, solr>>
              ELSE IF Len(documents) < run.batch_size
              THEN run' = appended /\ UNCHANGED <<pc, solr>>
              ELSE \E ok \in BOOLEAN, applied \in BOOLEAN :
                      /\ solr' = SolrAdd(solr, documents, ok, applied)
                      /\ pc' = AfterAddBatch(ok, "loop")
                      /\ run' = IF pc' = "loop" THEN AfterBatch(appended)
                                ELSE appended
    /\ UNCHANGED <<body, norm, paragraphs, code, index, xml, data, ttl, graph, docs, fs>>

\* the commit is sent only when the run created documents
IndexRemaining_CommitIfSent ==
    /\ pc = "loop"
    /\ run.todo = {}
    /\ IF run.documents = <<>>
       THEN pc' = (IF run.created = <<>> THEN "returned" ELSE "commit")
            /\ UNCHANGED solr
       ELSE \E ok \in BOOLEAN, applied \in BOOLEAN :
               /\ solr' = SolrAdd(solr, run.documents, ok, applied)
               /\ pc' = AfterAddBatch(ok, "commit")
    /\ UNCHANGED <<body, norm, paragraphs, code, index, xml, data, ttl, graph,
                   docs, run, fs>>

\* after the loop: if documents: self.index_documents(documents, batch_size)
IndexRemaining ==
    /\ pc = "loop"
    /\ run.todo = {}
    /\ IF run.documents = <<>> THEN pc' = "commit" /\ UNCHANGED solr
       ELSE \E ok \in BOOLEAN, applied \in BOOLEAN :
               /\ solr' = SolrAdd(solr, run.documents, ok, applied)
               /\ pc' = AfterAddBatch(ok, "commit")
    /\ UNCHANGED <<body, norm, paragraphs, code, index, xml, data, ttl, graph,
                   docs, run, fs>>

\* self.commit_index()
CommitIndex ==
    /\ pc = "commit"
    /\ \E ok \in BOOLEAN, applied \in BOOLEAN :
          /\ solr' = SolrCommit(solr, ok, applied)
          /\ pc' = IF ok THEN "returned" ELSE "raised"
    /\ UNCHANGED <<body, norm, paragraphs, code, index, xml, data, ttl, graph,
                   docs, run, fs>>

NextIndexAll ==
    \/ LoadTtl
    \/ \E batch_size \in BatchSizes : IndexAllStart(batch_size)
    \/ \E subject \in run.todo : VisitSubject(subject)
    \/ IndexRemaining
    \/ CommitIndex

SpecIndexAll == InitIndexAll /\ [][NextIndexAll]_vars

---------------------------------------------------------------------------
(* Properties of index_all (specification SpecIndexAll).                   *)

\* the requests of one kind, and the add-batches acknowledged
LogOf(op) == SelectSeq(solr.log, LAMBDA r : r.op = op)
AllAcknowledged == \A i \in 1..Len(solr.log) : solr.log[i].ok
AddBatches == [i \in 1..Len(LogOf("add")) |-> LogOf("add")[i].docs]

\* C13: when batch_size >= 1 and all add-batches are acknowledged, the
\* batches sent, put one after the other, are the documents created, in the
\* order the subjects were visited; no two of these documents share an id;
\* every batch holds at least 1 and at most batch_size documents.  During
\* the loop the documents not yet sent are those of the batch being filled.
C13_BatchesPartitionDocuments ==
    (run.batch_size >= 1 /\ AllAcknowledged /\ pc \in {"loop", "commit", "returned"}) =>
        /\ Flatten(AddBatches) \o (IF pc = "loop" THEN run.documents ELSE <<>>)
               = run.created
        /\ \A i, j \in 1..Len(run.created) :
               run.created[i].id = run.created[j].id => i = j
        /\ \A i \in 1..Len(AddBatches) :
               Len(AddBatches[i]) >= 1 /\ Len(AddBatches[i]) <= run.batch_size

\* a finished run with batch_size 2 that sent a full batch and a last batch
\* of one document, and skipped a subject
C13_Witness ==
    /\ pc = "returned"
    /\ AllAcknowledged
    /\ run.batch_size = 2
    /\ Len(AddBatches) >= 2
    /\ Len(AddBatches[1]) = 2
    /\ Len(AddBatches[Len(AddBatches)]) = 1
    /\ Len(run.created) < Cardinality(Subjects(graph))

\* the run of index_all is over: it returned or raised
Finished == pc \in {"returned", "raised"}
AddsAcknowledged ==
    \A i \in 1..Len(solr.log) : solr.log[i].op = "add" => solr.log[i].ok

\* C14: a commit request is never followed by another request and every
\* request before it is an acknowledged add-batch; a finished run whose
\* add-batches were all acknowledged has sent exactly one commit, as its
\* last request, also when it sent no add-batch at all.
C14_OneCommitAfterLastBatch ==
    /\ \A i \in 1..Len(solr.log) :
          solr.log[i].op = "commit" =>
              /\ i = Len(solr.log)
              /\ Finished
              /\ \A j \in 1..(i - 1) :
                    solr.log[j].op = "add" /\ solr.log[j].ok
    /\ (Finished /\ AddsAcknowledged) =>
          /\ Len(LogOf("commit")) = 1
          /\ solr.log[Len(solr.log)].op = "commit"
          /\ (run.created = <<>> => Len(solr.log) = 1)

\* a finished run that sent two add-batches and then the commit
C14_Witness ==
    /\ Finished
    /\ Len(solr.log) >= 3
    /\ AddsAcknowledged
    /\ solr.log[Len(solr.log)].op = "commit"
    /\ solr.log[Len(solr.log) - 1].op = "add"
    /\ solr.log[Len(solr.log) - 2].op = "add"

\* C15: an add-batch that was not acknowledged is the last request of the
\* run and the run has raised; the only requests of a run are add-batches
\* and the commit; the documents of every acknowledged batch are in the
\* store of the sink.
C15_FailedBatchStopsRun ==
    /\ \A i \in 1..Len(solr.log) :
          (solr.log[i].op = "add" /\ ~solr.log[i].ok) =>
              i = Len(solr.log) /\ pc = "raised"
    /\ \A i \in 1..Len(solr.log) :
          /\ solr.log[i].op \in {"add", "commit"}
          /\ (solr.log[i].op = "add" /\ solr.log[i].ok) =>
                \A k \in 1..Len(solr.log[i].docs) :
                    solr.log[i].docs[k] \in solr.store

\* a run that raised on its second add-batch, after the first was
\* acknowledged, with subjects left to visit
C15_Witness ==
    /\ pc = "raised"
    /\ Len(solr.log) = 2
    /\ solr.log[1].op = "add" /\ solr.log[1].ok
    /\ solr.log[2].op = "add" /\ ~solr.log[2].ok
    /\ run.todo # {}
    /\ \A k \in 1..Len(solr.log[1].docs) : solr.log[1].docs[k] \in solr.store

\* the classification table: the type field of a document and the class
\* that it names
TypeNames ==
    [legal_code |-> CLASS_LEGAL_CODE, legal_concept |-> CLASS_CONCEPT,
     norm |-> CLASS_NORM, paragraph |-> CLASS_PARAGRAPH]
DeclaredTypes(s) == Objects(graph, s, RDF_type)
Classified(s) == \E type \in DOMAIN TypeNames : TypeNames[type] \in DeclaredTypes(s)
Visited == IF pc \in {"load_ttl", "index"} THEN {} ELSE Subjects(graph) \ run.todo
Created == {run.created[i] : i \in 1..Len(run.created)}
Sent == UNION {{solr.log[i].docs[k] : k \in 1..Len(solr.log[i].docs)} :
                  i \in 1..Len(solr.log)}

\* C16: a subject visited by index_all got a document if and only if one
\* of its declared types is LegalCode, LegalConcept, Norm or Paragraph;
\* every document created has a type field that names one of the four
\* classes, a class the subject declares; every document sent to the sink
\* is one of the documents created, for a subject of one of these classes.
C16_DocumentIffClassified ==
    /\ \A s \in Visited : (\E d \in Created : d.id = s) <=> Classified(s)
    /\ \A d \in Created :
          /\ "type" \in DOMAIN d
          /\ d.type \in DOMAIN TypeNames
          /\ TypeNames[d.type] \in DeclaredTypes(d.id)
    /\ \A d \in Sent : d \in Created /\ Classified(d.id)

\* a finished run over a graph with a subject of another type, a subject of
\* no type and a subject of two types of which one is LegalCode: the first
\* two got no document, the third was sent as a legal code
C16_Witness ==
    /\ pc = "returned"
    /\ ForeignTriples \subseteq graph
    /\ \E s \in Visited : DeclaredTypes(s) # {} /\ ~Classified(s)
    /\ \E s \in Visited : DeclaredTypes(s) = {}
    /\ \E d \in Sent :
          /\ Cardinality(DeclaredTypes(d.id)) = 2
          /\ d.type = "legal_code"
    /\ \E d \in Sent : d.type = "paragraph"
    /\ Cardinality(Sent) < Cardinality(Subjects(graph))

---------------------------------------------------------------------------
(* The indexer's main: load_ttl, clear_index if --clear-index is given,    *)
(* index_all (specification SpecIndexerMain).                              *)

\* requests.post(self.update_url, data=json.dumps({"delete": {"query": "*:*"}}))
SolrDelete(s, ok, applied) ==
    [log     |-> Append(s.log, [op |-> "delete", docs |-> <<>>, ok |-> ok]),
     store   |-> IF ok \/ applied THEN {} ELSE s.store,
     visible |-> s.visible]

\* what an earlier run left in the search index
OldDocuments ==
    {[id |-> BGB_DATA \o "norm_0", uri |-> BGB_DATA \o "norm_0",
      rdf_type |-> SetToBag({BGB_ONTO \o "Norm"}), type |-> "norm",
      norm_number |-> "0", has_paragraph |-> EmptyBag]}

\* the Turtle files of the runs with --clear-index: the graphs of the input
\* documents
MainTtlFiles == {build_graph(to_json_ld(transform(x))) : x \in IndexedDocuments}

InitIndexerMain ==
    /\ body = ""
    /\ norm = NormOf("1", "", "")
    /\ paragraphs = <<>>
    /\ pc = "load_ttl"
    /\ code = EmptyCode
    /\ index = <<>>
    /\ xml = <<>>
    /\ data = <<>>
    /\ ttl \in MainTtlFiles
    /\ graph = {}
    /\ docs = <<>>
    /\ run = [batch_size |-> 0, todo |-> {}, documents |-> <<>>, created |-> <<>>]
    /\ \E store \in {{}, OldDocuments} :
          solr = [log |-> <<>>, store |-> store, visible |-> store]
    /\ fs = GoodFiles

\* the failure of a request of clear_index is logged and the run goes on
AfterClearRequest_GoOn(ok, continue_at) == continue_at

\* clear_index calls sys.exit(1) on a RequestException: where the run
\* continues after a request
AfterClearRequest(ok, continue_at) == IF ok THEN continue_at ELSE "exit"

\* if args.clear_index: indexer.clear_index(): the delete request, then
\* the commit if the delete was acknowledged
ClearIndex ==
    /\ pc = "index"
    /\ \E ok \in BOOLEAN, applied \in BOOLEAN :
          LET deleted == SolrDelete(solr, ok, applied)
          IN  IF AfterClearRequest(ok, "commit") = "commit"
              THEN \E commit_ok \in BOOLEAN, commit_applied \in BOOLEAN :
                      /\ solr' = SolrCommit(deleted, commit_ok, commit_applied)
                      /\ pc' = AfterClearRequest(commit_ok, "cleared")
              ELSE solr' = deleted /\ pc' = "exit"
    /\ UNCHANGED <<body, norm, paragraphs, code, index, xml, data, ttl, graph,
                   docs, run, fs>>

NextIndexerMain == NextIndexAll \/ ClearIndex

SpecIndexerMain == InitIndexerMain /\ [][NextIndexerMain]_vars

\* the positions of the requests of one kind in the log
Positions(op) == {i \in 1..Len(solr.log) : solr.log[i].op = op}

\* C26: when clearing is requested, the delete request is the first
\* request of the run and its commit the second, both acknowledged before
\* any add-batch is sent; when the delete or its commit fails the run
\* exits with no add-batch sent; after an acknowledged delete and commit
\* the index is empty, whether it was empty before or not.
C26_ClearBeforeFirstBatch ==
    Positions("delete") # {} =>
        /\ Positions("delete") = {1}
        /\ solr.log[1].ok => (Len(solr.log) >= 2 /\ solr.log[2].op = "commit")
        /\ \A i \in Positions("add") :
              i > 2 /\ solr.log[1].ok /\ solr.log[2].ok
        /\ (~solr.log[1].ok \/ (Len(solr.log) >= 2 /\ ~solr.log[2].ok))
              => (pc = "exit" /\ Positions("add") = {})
        /\ (Len(solr.log) = 2 /\ solr.log[1].ok /\ solr.log[2].ok) =>
              (solr.store = {} /\ solr.visible = {})

\* a run that cleared an index holding an old document, sent an add-batch
\* and the final commit: the old document is gone
C26_Witness ==
    /\ pc = "returned"
    /\ Positions("delete") = {1}
    /\ Positions("add") # {}
    /\ Cardinality(Positions("commit")) = 2
    /\ solr.visible # {}
    /\ solr.visible \cap OldDocuments = {}

=============================================================================
